---------------------------- MODULE Spec2Model ----------------------------
(***************************************************************************)
(* Model of app.py, the Streamlit form of the Electric Vehicle Accident   *)
(* Predictor.  Streamlit runs the whole script top to bottom once when a  *)
(* session connects and once more after every widget interaction; every   *)
(* action of the form below is one such script run.  The pure helpers of  *)
(* the script (is_valid_ny_zipcode, get_region, the temporal features)    *)
(* are operators, applied to drawn inputs by two further specifications.  *)
(*                                                                         *)
(* A Python str is modelled as a sequence of one-character strings, so    *)
(* that int(), str.isdigit() and len() are computed character by          *)
(* character.                                                              *)
(***************************************************************************)
EXTENDS Integers, Sequences, FiniteSets, TLC

VARIABLES
    artifact_ok,          \* environment: LR_model_f1_0.6133.pkl opens and unpickles
    model,                \* st.cache_resource entry of load_model: "unloaded" | "loaded"
    halted,               \* where the last script run ended: "connected" (no run yet),
                          \* "load" (st.stop, line 95), "zip" (st.stop, line 154), "end"
    date_time,            \* widget values, kept by the session between runs
    hour,
    vehicle_type,
    contributing_factor,
    zip_code,
    temporal,             \* month, day, day_of_week, is_rush_hour, is_weekend, is_night_time
    region,               \* the local of line 145
    input_data,           \* the DataFrame row handed to the predictor in this run
    predict_calls,        \* calls of model.predict in this run
    proba_calls,          \* calls of model.predict_proba in this run
    prediction,           \* the label rendered by st.metric("Prediction", ...)
    risk_factors,         \* the list of lines 194-200
    page,                 \* the elements this run rendered, in order
    predictor,            \* what the predictor did in this run: "idle", "predict raised",
                          \* "predict_proba raised" or "returned"
    had_failure,          \* history: some Predict attempt ended in line 208
    arg,                  \* the drawn input of a pure-function specification
    ret                   \* the value the function returned for arg

formVars == <<artifact_ok, model, halted, date_time, hour, vehicle_type,
              contributing_factor, zip_code, temporal, region, input_data,
              predict_calls, proba_calls, prediction, risk_factors, page,
              predictor, had_failure>>
pureVars == <<arg, ret>>
vars == <<formVars, pureVars>>

\* A name that is not bound (a local the run never assigned, a call not made).
NoValue == [bound |-> FALSE]

-----------------------------------------------------------------------------
(* Bounds of the checked instances.                                        *)

\* Integer values drawn for ZIP strings reach this far beyond 10001 and 14925.
Margin == 12
\* Leading zeros put in front of a drawn ZIP value, 0..MaxPad of them.
MaxPad == 3
\* The form's date picker offers 2024-06-14 .. 2024-06-(14 + DaySpan).
DaySpan == 2
\* The pure temporal specification draws dates of the years 2023 .. 2023 + YearSpan.
YearSpan == 1
\* The form's vehicle select box offers the first NumVehicles of its options.
NumVehicles == 2
\* The form's factor select box offers the first NumFactors of its options.
NumFactors == 4

-----------------------------------------------------------------------------
(* Python strings and int().                                               *)

DigitChars == <<"0", "1", "2", "3", "4", "5", "6", "7", "8", "9">>

IsDigitChar(c) == \E i \in 1..10 : DigitChars[i] = c

DigitVal(c) == (CHOOSE i \in 1..10 : DigitChars[i] = c) - 1

\* str.isdigit(): non-empty and every character a digit.
isdigit(s) == Len(s) > 0 /\ \A i \in 1..Len(s) : IsDigitChar(s[i])

\* str.strip() as int() applies it: leading and trailing blanks dropped.
RECURSIVE LStrip(_)
LStrip(s) == IF Len(s) > 0 /\ Head(s) = " " THEN LStrip(Tail(s)) ELSE s

RECURSIVE RStrip(_)
RStrip(s) ==
    IF Len(s) > 0 /\ s[Len(s)] = " " THEN RStrip(SubSeq(s, 1, Len(s) - 1)) ELSE s

\* The digits of an int() literal: digits, single underscores between digits only.
WellFormedDigits(s) ==
    /\ Len(s) > 0
    /\ IsDigitChar(s[1])
    /\ IsDigitChar(s[Len(s)])
    /\ \A i \in 1..Len(s) : IsDigitChar(s[i]) \/ s[i] = "_"
    /\ \A i \in 1..(Len(s) - 1) : ~(s[i] = "_" /\ s[i + 1] = "_")

RECURSIVE DigitsValue(_, _)
DigitsValue(s, acc) ==
    IF Len(s) = 0 THEN acc
    ELSE IF Head(s) = "_" THEN DigitsValue(Tail(s), acc)
    ELSE DigitsValue(Tail(s), 10 * acc + DigitVal(Head(s)))

\* int(s) in base 10: [ok |-> FALSE] stands for ValueError.
PyInt(s) ==
    LET t    == RStrip(LStrip(s))
        sgn  == Len(t) > 0 /\ t[1] \in {"+", "-"}
        body == IF sgn THEN Tail(t) ELSE t
    IN  IF WellFormedDigits(body)
        THEN [ok  |-> TRUE,
              val |-> IF sgn /\ t[1] = "-" THEN 0 - DigitsValue(body, 0)
                      ELSE DigitsValue(body, 0)]
        ELSE [ok |-> FALSE, val |-> 0]

-----------------------------------------------------------------------------
(* The Region Classifier.                                                  *)

ny_ranges ==
    << <<10001, 14925>>, <<12007, 12887>>, <<13001, 13901>>,
       <<14001, 14788>>, <<14801, 14925>> >>

is_valid_ny_zipcode(zipcode) ==
    LET r == PyInt(zipcode)
    IN  IF r.ok
        THEN \E i \in 1..Len(ny_ranges) :
                 ny_ranges[i][1] <= r.val /\ r.val <= ny_ranges[i][2]
        ELSE FALSE

\* Variant of get_region: Brooklyn tested before Queens.
get_region_brooklyn_first(zipcode) ==
    LET r == PyInt(zipcode)
        zip_int == r.val
    IN  IF ~r.ok THEN "Invalid"
        ELSE IF 10001 <= zip_int /\ zip_int <= 14925 THEN
            IF 10001 <= zip_int /\ zip_int <= 10282 THEN "Manhattan, NYC"
            ELSE IF 10301 <= zip_int /\ zip_int <= 10314 THEN "Staten Island, NYC"
            ELSE IF 10451 <= zip_int /\ zip_int <= 10475 THEN "Bronx, NYC"
            ELSE IF 11201 <= zip_int /\ zip_int <= 11256 THEN "Brooklyn, NYC"
            ELSE IF 11001 <= zip_int /\ zip_int <= 11697 THEN "Queens, NYC"
            ELSE "New York City Area"
        ELSE "Unknown"

\* Variant of get_region: no outer test 10001 <= zip_int <= 14925.
get_region_narrow(zipcode) ==
    LET r == PyInt(zipcode)
        zip_int == r.val
    IN  IF ~r.ok THEN "Invalid"
        ELSE IF 10001 <= zip_int /\ zip_int <= 10282 THEN "Manhattan, NYC"
        ELSE IF 10301 <= zip_int /\ zip_int <= 10314 THEN "Staten Island, NYC"
        ELSE IF 10451 <= zip_int /\ zip_int <= 10475 THEN "Bronx, NYC"
        ELSE IF 11001 <= zip_int /\ zip_int <= 11697 THEN "Queens, NYC"
        ELSE IF 12007 <= zip_int /\ zip_int <= 12887 THEN "Capital Region"
        ELSE IF 13001 <= zip_int /\ zip_int <= 13901 THEN "Central New York"
        ELSE IF 14001 <= zip_int /\ zip_int <= 14788 THEN "Western New York"
        ELSE IF 14801 <= zip_int /\ zip_int <= 14925 THEN "Southern Tier"
        ELSE "Unknown"

get_region(zipcode) ==
    LET r == PyInt(zipcode)
        zip_int == r.val
    IN  IF ~r.ok THEN "Invalid"
        ELSE IF 10001 <= zip_int /\ zip_int <= 14925 THEN
            IF 10001 <= zip_int /\ zip_int <= 10282 THEN "Manhattan, NYC"
            ELSE IF 10301 <= zip_int /\ zip_int <= 10314 THEN "Staten Island, NYC"
            ELSE IF 10451 <= zip_int /\ zip_int <= 10475 THEN "Bronx, NYC"
            ELSE IF 11001 <= zip_int /\ zip_int <= 11697 THEN "Queens, NYC"
            ELSE IF 11201 <= zip_int /\ zip_int <= 11256 THEN "Brooklyn, NYC"
            ELSE "New York City Area"
        ELSE IF 12007 <= zip_int /\ zip_int <= 12887 THEN "Capital Region"
        ELSE IF 13001 <= zip_int /\ zip_int <= 13901 THEN "Central New York"
        ELSE IF 14001 <= zip_int /\ zip_int <= 14788 THEN "Western New York"
        ELSE IF 14801 <= zip_int /\ zip_int <= 14925 THEN "Southern Tier"
        ELSE "Unknown"

-----------------------------------------------------------------------------
(* The Temporal Feature Deriver: datetime.date and lines 108-113.          *)

is_leap(year) == year % 4 = 0 /\ (year % 100 # 0 \/ year % 400 = 0)

DAYS_BEFORE_MONTH == <<0, 31, 59, 90, 120, 151, 181, 212, 243, 273, 304, 334>>

\* date.toordinal(): days since 0001-01-01, which is day 1.
toordinal(d) ==
    LET y == d.year - 1
    IN  y * 365 + (y \div 4) - (y \div 100) + (y \div 400)
        + DAYS_BEFORE_MONTH[d.month]
        + (IF d.month > 2 /\ is_leap(d.year) THEN 1 ELSE 0)
        + d.day

\* date.weekday(): 0 = Monday .. 6 = Sunday.
weekday(d) == (toordinal(d) + 6) % 7

\* Variant of deriveFeatures: the rush-hour intervals exclude their upper ends.
deriveFeatures_half_open(d, h) ==
    LET dow == weekday(d)
    IN  [month         |-> d.month,
         day           |-> d.day,
         day_of_week   |-> dow,
         is_rush_hour  |-> IF (7 <= h /\ h < 9) \/ (16 <= h /\ h < 19) THEN 1 ELSE 0,
         is_weekend    |-> IF dow >= 5 THEN 1 ELSE 0,
         is_night_time |-> IF h >= 22 \/ h <= 5 THEN 1 ELSE 0]

deriveFeatures(d, h) ==
    LET dow == weekday(d)
    IN  [month         |-> d.month,
         day           |-> d.day,
         day_of_week   |-> dow,
         is_rush_hour  |-> IF (7 <= h /\ h <= 9) \/ (16 <= h /\ h <= 19) THEN 1 ELSE 0,
         is_weekend    |-> IF dow >= 5 THEN 1 ELSE 0,
         is_night_time |-> IF h >= 22 \/ h <= 5 THEN 1 ELSE 0]

-----------------------------------------------------------------------------
(* The form: widgets, messages and the Predict handler.                    *)

HourMin == 0
HourMax == 23
HourDefault == 12

VehicleOptions ==
    <<"sedan", "suv", "bus", "bicycle", "truck", "van", "motorcycle">>

FactorOptions ==
    <<"driver inattention/distraction", "failure to yield right-of-way",
      "following too closely", "unsafe speed", "unsafe lane changing",
      "backing unsafely", "other">>

ZipDefault == <<"1", "0", "0", "0", "1">>

MsgLoaded     == "Model loaded successfully!"
MsgLoadError  == "Error loading model"
MsgZipWarning == "Please enter a valid 5-digit ZIP code"
MsgZipNotNY   == "This ZIP code is not in New York State. Please enter a valid NY ZIP code."
MsgZipValid   == "Valid New York State ZIP code."
MsgBlocked    == "Cannot make prediction: Please enter a valid New York State ZIP code."
MsgResults    == "Prediction Results"
MsgLikely     == "Casualty Likely"
MsgUnlikely   == "No Casualty Likely"
MsgProbability == "Probability"
MsgRiskHeader == "### Risk Factors"
MsgRiskList   == "risk_factors joined by newlines"
MsgNoRisk     == "No significant risk factors identified."
MsgPredError  == "Error making prediction"
MsgFooter     == "### About the Model"

NoteRush    == <<"- Accident occurs during rush hour">>
NoteNight   == <<"- Accident occurs during night time">>
NoteHigh(f) == <<"- High-risk contributing factor: ", f>>

Unbound == "<unbound>"

\* Variant of LoadModel: the except branch reports the error without st.stop().
LoadModel_no_stop(cache, ok) ==
    IF cache = "loaded" \/ ok
    THEN [model |-> "loaded", stop |-> FALSE, page |-> <<MsgLoaded>>]
    ELSE [model |-> "unloaded", stop |-> FALSE, page |-> <<MsgLoadError>>]

\* Lines 90-95: load_model behind st.cache_resource.  A cached model is returned
\* without opening the file; an exception is not cached.
LoadModel(cache, ok) ==
    IF cache = "loaded" \/ ok
    THEN [model |-> "loaded", stop |-> FALSE, page |-> <<MsgLoaded>>]
    ELSE [model |-> "unloaded", stop |-> TRUE, page |-> <<MsgLoadError>>]

\* Lines 139-146: the inline ZIP check under the text input.
InlineZipCheck(z) ==
    IF ~isdigit(z) \/ Len(z) # 5
    THEN [msg |-> MsgZipWarning, region |-> Unbound]
    ELSE IF ~is_valid_ny_zipcode(z)
    THEN [msg |-> MsgZipNotNY, region |-> Unbound]
    ELSE [msg |-> MsgZipValid, region |-> get_region(z)]

\* Variant of BuildInputData: IsNightTime filled with the hour, not the flag.
BuildInputData_raw_hour(t, h, v, f, z) ==
    [Month       |-> t.month,
     Day         |-> t.day,
     Hour        |-> h,
     DayOfWeek   |-> t.day_of_week,
     VehicleType |-> v,
     ZipCode     |-> PyInt(z).val,
     Factor      |-> f,
     IsRushHour  |-> t.is_rush_hour,
     IsWeekend   |-> t.is_weekend,
     IsNightTime |-> h]

\* Lines 157-168: the one-row DataFrame.
BuildInputData(t, h, v, f, z) ==
    [Month       |-> t.month,
     Day         |-> t.day,
     Hour        |-> h,
     DayOfWeek   |-> t.day_of_week,
     VehicleType |-> v,
     ZipCode     |-> PyInt(z).val,
     Factor      |-> f,
     IsRushHour  |-> t.is_rush_hour,
     IsWeekend   |-> t.is_weekend,
     IsNightTime |-> t.is_night_time]

\* Variant of RiskFactors: "unsafe speed" missing from the high-risk list.
RiskFactors_one_factor(t, f) ==
    (IF t.is_rush_hour # 0 THEN <<NoteRush>> ELSE <<>>)
    \o (IF t.is_night_time # 0 THEN <<NoteNight>> ELSE <<>>)
    \o (IF f \in {"driver inattention/distraction"}
        THEN <<NoteHigh(f)>> ELSE <<>>)

\* Lines 194-200.
RiskFactors(t, f) ==
    (IF t.is_rush_hour # 0 THEN <<NoteRush>> ELSE <<>>)
    \o (IF t.is_night_time # 0 THEN <<NoteNight>> ELSE <<>>)
    \o (IF f \in {"driver inattention/distraction", "unsafe speed"}
        THEN <<NoteHigh(f)>> ELSE <<>>)

\* What the opaque predictor does with one request: predict raises, or returns
\* label 0 or 1 and then predict_proba raises or returns.
PredictorOutcomes ==
    [predict_raises : BOOLEAN, proba_raises : BOOLEAN, label : {0, 1}]

\* Lines 150-208: the body of the Predict button's if.  gate is the ZIP check of
\* line 152.
PredictHandlerWith(gate, t, h, v, f, z, o) ==
    IF ~gate
    THEN [stop |-> TRUE, predictor |-> "idle", input_data |-> NoValue,
          predict_calls |-> 0, proba_calls |-> 0, prediction |-> Unbound,
          risk_factors |-> <<>>, page |-> <<MsgBlocked>>]
    ELSE IF o.predict_raises
    THEN [stop |-> FALSE, predictor |-> "predict raised",
          input_data |-> BuildInputData(t, h, v, f, z),
          predict_calls |-> 1, proba_calls |-> 0, prediction |-> Unbound,
          risk_factors |-> <<>>, page |-> <<MsgPredError>>]
    ELSE IF o.proba_raises
    THEN [stop |-> FALSE, predictor |-> "predict_proba raised",
          input_data |-> BuildInputData(t, h, v, f, z),
          predict_calls |-> 1, proba_calls |-> 1, prediction |-> Unbound,
          risk_factors |-> <<>>, page |-> <<MsgPredError>>]
    ELSE LET rf == RiskFactors(t, f)
         IN  [stop |-> FALSE, predictor |-> "returned",
              input_data |-> BuildInputData(t, h, v, f, z),
              predict_calls |-> 1, proba_calls |-> 1,
              prediction |-> IF o.label = 1 THEN MsgLikely ELSE MsgUnlikely,
              risk_factors |-> rf,
              page |-> <<MsgResults, IF o.label = 1 THEN MsgLikely ELSE MsgUnlikely,
                         MsgProbability, MsgRiskHeader,
                         IF rf # <<>> THEN MsgRiskList ELSE MsgNoRisk>>]

\* Variant of PredictHandler: predict_proba is called a second time after it raised.
PredictHandler_retry(t, h, v, f, z, o) ==
    LET r == PredictHandlerWith(is_valid_ny_zipcode(z), t, h, v, f, z, o)
    IN  IF r.predictor = "predict_proba raised"
        THEN [r EXCEPT !.proba_calls = 2]
        ELSE r

PredictHandler(t, h, v, f, z, o) ==
    PredictHandlerWith(is_valid_ny_zipcode(z), t, h, v, f, z, o)

\* The button was not pressed in this run: line 149 is false.
NoPredict ==
    [stop |-> FALSE, predictor |-> "idle", input_data |-> NoValue,
     predict_calls |-> 0, proba_calls |-> 0, prediction |-> Unbound,
     risk_factors |-> <<>>, page |-> <<>>]

\* One run of the script with the widget values d, h, v, f, z; click says whether
\* this run is the one the Predict button triggered, o what the predictor does.
\* st.stop() ends the run where it is called: nothing below it is rendered.  The
\* heatmap tab (lines 232-249) reads no state of the form and is left out.
ScriptRun(d, h, v, f, z, click, o) ==
    LET ld == LoadModel(model, artifact_ok)
    IN  IF ld.stop
        THEN [model |-> ld.model, halted |-> "load", temporal |-> NoValue,
              region |-> Unbound, predictor |-> "idle", input_data |-> NoValue,
              predict_calls |-> 0, proba_calls |-> 0, prediction |-> Unbound,
              risk_factors |-> <<>>, page |-> ld.page]
        ELSE LET t  == deriveFeatures(d, h)
                 iz == InlineZipCheck(z)
                 ph == IF click THEN PredictHandler(t, h, v, f, z, o) ELSE NoPredict
             IN  [model |-> ld.model,
                  halted |-> IF ph.stop THEN "zip" ELSE "end",
                  temporal |-> t,
                  region |-> iz.region,
                  predictor |-> ph.predictor,
                  input_data |-> ph.input_data,
                  predict_calls |-> ph.predict_calls,
                  proba_calls |-> ph.proba_calls,
                  prediction |-> ph.prediction,
                  risk_factors |-> ph.risk_factors,
                  page |-> ld.page \o <<iz.msg>> \o ph.page
                           \o (IF ph.stop THEN <<>> ELSE <<MsgFooter>>)]

\* The session's state after a run with these widget values.
Run(d, h, v, f, z, click, o) ==
    \E r \in {ScriptRun(d, h, v, f, z, click, o)} :
        /\ model' = r.model
        /\ halted' = r.halted
        /\ date_time' = d
        /\ hour' = h
        /\ vehicle_type' = v
        /\ contributing_factor' = f
        /\ zip_code' = z
        /\ temporal' = r.temporal
        /\ region' = r.region
        /\ input_data' = r.input_data
        /\ predict_calls' = r.predict_calls
        /\ proba_calls' = r.proba_calls
        /\ prediction' = r.prediction
        /\ risk_factors' = r.risk_factors
        /\ page' = r.page
        /\ predictor' = r.predictor
        /\ had_failure' = (had_failure \/ r.predictor \in {"predict raised", "predict_proba raised"})
        /\ UNCHANGED <<artifact_ok, pureVars>>

-----------------------------------------------------------------------------
(* Inputs of the checked instances.                                        *)

FormDates == {[year |-> 2024, month |-> 6, day |-> 14 + k] : k \in 0..DaySpan}

Hours == HourMin..HourMax

\* The hours the form's slider is moved to: the default and both sides of every
\* edge of the rush-hour and night-time intervals.
FormHours == {h \in Hours : h \in {5, 6, 7, 9, 10, 12, 16, 19, 20, 22}}

FormVehicles == {VehicleOptions[i] : i \in 1..NumVehicles}

FormFactors == {FactorOptions[i] : i \in 1..NumFactors}

FormZips ==
    { ZipDefault,
      <<"1", "3", "5", "0", "0">>,
      <<"1", "4", "9", "2", "6">>,
      <<"0", "1", "0", "0", "0", "1">>,
      <<"0", "0", "0", "1">>,
      <<"1", "0", "0", "0", "a">>,
      <<>> }

NoOutcome == [predict_raises |-> FALSE, proba_raises |-> FALSE, label |-> 0]

\* The widgets exist on the page only when the last run got past line 95.
WidgetsShown == halted \in {"zip", "end"}

PureIdle == arg = NoValue /\ ret = NoValue

\* A browser connected; no script run yet.  The widgets will show their defaults.
Connected(ok, today) ==
    /\ artifact_ok = ok
    /\ model = "unloaded"
    /\ halted = "connected"
    /\ date_time = today
    /\ hour = HourDefault
    /\ vehicle_type = VehicleOptions[1]
    /\ contributing_factor = FactorOptions[1]
    /\ zip_code = ZipDefault
    /\ temporal = NoValue
    /\ region = Unbound
    /\ input_data = NoValue
    /\ predict_calls = 0
    /\ proba_calls = 0
    /\ prediction = Unbound
    /\ risk_factors = <<>>
    /\ page = <<>>
    /\ predictor = "idle"
    /\ had_failure = FALSE

Init == (\E ok \in BOOLEAN, today \in FormDates : Connected(ok, today)) /\ PureIdle

FirstRun ==
    /\ halted = "connected"
    /\ Run(date_time, hour, vehicle_type, contributing_factor, zip_code, FALSE, NoOutcome)

\* The user reruns the script from the menu; no widget changed.
Rerun ==
    /\ halted # "connected"
    /\ Run(date_time, hour, vehicle_type, contributing_factor, zip_code, FALSE, NoOutcome)

EditDate ==
    /\ WidgetsShown
    /\ \E d \in FormDates \ {date_time} :
           Run(d, hour, vehicle_type, contributing_factor, zip_code, FALSE, NoOutcome)

EditHour ==
    /\ WidgetsShown
    /\ \E h \in FormHours \ {hour} :
           Run(date_time, h, vehicle_type, contributing_factor, zip_code, FALSE, NoOutcome)

EditVehicle ==
    /\ WidgetsShown
    /\ \E v \in FormVehicles \ {vehicle_type} :
           Run(date_time, hour, v, contributing_factor, zip_code, FALSE, NoOutcome)

EditFactor ==
    /\ WidgetsShown
    /\ \E f \in FormFactors \ {contributing_factor} :
           Run(date_time, hour, vehicle_type, f, zip_code, FALSE, NoOutcome)

EditZip ==
    /\ WidgetsShown
    /\ \E z \in FormZips \ {zip_code} :
           Run(date_time, hour, vehicle_type, contributing_factor, z, FALSE, NoOutcome)

ClickPredict ==
    /\ WidgetsShown
    /\ \E o \in PredictorOutcomes :
           Run(date_time, hour, vehicle_type, contributing_factor, zip_code, TRUE, o)

Next ==
    \/ FirstRun
    \/ Rerun
    \/ EditDate
    \/ EditHour
    \/ EditVehicle
    \/ EditFactor
    \/ EditZip
    \/ ClickPredict

Spec == Init /\ [][Next]_vars

-----------------------------------------------------------------------------
(* The Region Classifier applied to drawn strings.                         *)

\* str(n) for n >= 0.
NumDigits(n) == CHOOSE k \in 1..10 : n < 10^k /\ (k = 1 \/ n >= 10^(k - 1))

Str(n) ==
    LET len == NumDigits(n)
    IN  [i \in 1..len |-> DigitChars[((n \div 10^(len - i)) % 10) + 1]]

Zeros(k) == [i \in 1..k |-> "0"]

\* Every integer from Margin below the lowest range to Margin above the highest,
\* and three values far outside.
ZipValues == ((10001 - Margin)..(14925 + Margin)) \cup {0, 1, 99999}

\* The ways a value is written: in decimal with 0..MaxPad leading zeros (so
\* "0001" and "010001" are drawn), and the other ways int() reads or rejects:
\* signed, blank-padded, with underscores, with a letter.
Writings ==
    [kind : {"pad"}, k : 0..MaxPad, c : {<<>>}]
    \cup [kind : {"before", "after", "inside"}, k : {0},
          c : {<<"+">>, <<"-">>, <<" ">>, <<"_">>, <<"_", "_">>, <<"a">>}]
    \cup [kind : {"alone"}, k : {0}, c : {<<>>, <<"+">>, <<" ">>}]

Write(w, n) ==
    LET str == Str(n)
    IN  CASE w.kind = "pad"    -> Zeros(w.k) \o str
          [] w.kind = "before" -> w.c \o str
          [] w.kind = "after"  -> str \o w.c
          [] w.kind = "inside" -> <<Head(str)>> \o w.c \o Tail(str)
          [] w.kind = "alone"  -> w.c

InitRegion ==
    /\ Connected(TRUE, [year |-> 2024, month |-> 6, day |-> 14])
    /\ \E w \in Writings, n \in ZipValues : arg = Write(w, n)
    /\ ret = NoValue

CallRegion ==
    /\ ret = NoValue
    /\ ret' = [is_valid |-> is_valid_ny_zipcode(arg), region |-> get_region(arg)]
    /\ UNCHANGED <<formVars, arg>>

NextRegion == CallRegion

SpecRegion == InitRegion /\ [][NextRegion]_vars

-----------------------------------------------------------------------------
(* The temporal features applied to drawn dates and hours.                 *)

DaysInMonth(y, m) ==
    IF m = 2 THEN (IF is_leap(y) THEN 29 ELSE 28)
    ELSE IF m \in {4, 6, 9, 11} THEN 30 ELSE 31

Dates ==
    {d \in [year : 2023..(2023 + YearSpan), month : 1..12, day : 1..31] :
        d.day <= DaysInMonth(d.year, d.month)}

InitFeatures ==
    /\ Connected(TRUE, [year |-> 2024, month |-> 6, day |-> 14])
    /\ arg \in [date : Dates, hour : Hours]
    /\ ret = NoValue

CallDeriveFeatures ==
    /\ ret = NoValue
    /\ ret' = deriveFeatures(arg.date, arg.hour)
    /\ UNCHANGED <<formVars, arg>>

NextFeatures == CallDeriveFeatures

SpecFeatures == InitFeatures /\ [][NextFeatures]_vars

-----------------------------------------------------------------------------
(* What the specification says, stated without the script's own helpers.   *)

InPage(m) == \E i \in 1..Len(page) : page[i] = m

FiveDigitNumeric(s) == Len(s) = 5 /\ \A i \in 1..5 : IsDigitChar(s[i])

\* The value of a string of decimal digits.
RECURSIVE Decimal(_)
Decimal(s) ==
    IF Len(s) = 0 THEN 0
    ELSE 10 * Decimal(SubSeq(s, 1, Len(s) - 1)) + DigitVal(s[Len(s)])

IntegerValue(s) == IF isdigit(s) THEN Decimal(s) ELSE PyInt(s).val

InNewYorkRanges(n) ==
    \/ n \in 10001..14925
    \/ n \in 12007..12887
    \/ n \in 13001..13901
    \/ n \in 14001..14788
    \/ n \in 14801..14925

\* The day of the week by Sakamoto's method, turned to Monday = 0 .. Sunday = 6.
MondayZero(d) ==
    LET t == <<0, 3, 2, 5, 0, 3, 5, 1, 4, 6, 2, 4>>
        y == IF d.month < 3 THEN d.year - 1 ELSE d.year
        sunday_zero == (y + (y \div 4) - (y \div 100) + (y \div 400) + t[d.month] + d.day) % 7
    IN  (sunday_zero + 6) % 7

RushHour(h) == (7 <= h /\ h <= 9) \/ (16 <= h /\ h <= 19)
NightTime(h) == h >= 22 \/ h <= 5
Flag(b) == IF b THEN 1 ELSE 0

Z(a, b, c, d, e) == <<a, b, c, d, e>>

\* C1: the predictor is invoked only if the ZIP text current at the Predict
\* action is a 5-digit numeric string inside the New York ranges.
C1_PredictOnlyForValidZip ==
    (predict_calls > 0 \/ proba_calls > 0)
        => (FiveDigitNumeric(zip_code) /\ InNewYorkRanges(Decimal(zip_code)))

\* C2: is_valid_ny_zipcode returns true exactly for the 5-digit numeric strings
\* whose value lies in one of the five ranges, and false for every other string.
C2_ValidIffFiveDigitInRange ==
    ret # NoValue =>
        (ret.is_valid <=> (FiveDigitNumeric(arg) /\ InNewYorkRanges(Decimal(arg))))

\* C3: get_region returns the broader region for a ZIP in that region's range,
\* "Unknown" for a numeric ZIP in no range, and the four stated examples.
C3_BroaderRegions ==
    (ret # NoValue /\ FiveDigitNumeric(arg)) =>
        LET n == Decimal(arg)
        IN  /\ n \in 12007..12887 => ret.region = "Capital Region"
            /\ n \in 13001..13901 => ret.region = "Central New York"
            /\ n \in 14001..14788 => ret.region = "Western New York"
            /\ n \in 14801..14925 => ret.region = "Southern Tier"
            /\ ~InNewYorkRanges(n) => ret.region = "Unknown"
            /\ arg = Z("1", "0", "0", "0", "1") => ret.region = "Manhattan, NYC"
            /\ arg = Z("1", "1", "2", "0", "1") => ret.region = "Queens, NYC"
            /\ arg = Z("1", "3", "5", "0", "0") => ret.region = "Central New York"
            /\ arg = Z("9", "9", "9", "9", "9") => ret.region = "Unknown"

PriorityList ==
    << [lo |-> 10001, hi |-> 10282, label |-> "Manhattan, NYC"],
       [lo |-> 10301, hi |-> 10314, label |-> "Staten Island, NYC"],
       [lo |-> 10451, hi |-> 10475, label |-> "Bronx, NYC"],
       [lo |-> 11001, hi |-> 11697, label |-> "Queens, NYC"],
       [lo |-> 11201, hi |-> 11256, label |-> "Brooklyn, NYC"] >>

Matches(n) == {i \in 1..Len(PriorityList) : PriorityList[i].lo <= n /\ n <= PriorityList[i].hi}

FirstMatch(n) ==
    IF Matches(n) = {} THEN "New York City Area"
    ELSE PriorityList[CHOOSE i \in Matches(n) : \A j \in Matches(n) : i <= j].label

\* C4: for an integer value in [10001,14925] get_region returns the label of the
\* first matching entry of the ordered list, "New York City Area" when none
\* matches; 11201..11256 is "Queens, NYC", never "Brooklyn, NYC".
C4_FirstMatchWins ==
    (ret # NoValue /\ PyInt(arg).ok /\ IntegerValue(arg) \in 10001..14925) =>
        /\ ret.region = FirstMatch(IntegerValue(arg))
        /\ IntegerValue(arg) \in 11201..11256 => ret.region = "Queens, NYC"
        /\ ret.region # "Brooklyn, NYC"

C4_Witness ==
    /\ ret # NoValue
    /\ arg = Z("1", "1", "2", "0", "1")
    /\ ret.region = "Queens, NYC"

\* C5: day_of_week is in 0..6 with Monday = 0 and Sunday = 6; is_rush_hour iff
\* 7 <= hour <= 9 or 16 <= hour <= 19; is_weekend iff day_of_week >= 5;
\* is_night_time iff hour >= 22 or hour <= 5; hour 8 is rush hour and not night,
\* hour 23 is night, and Saturday 2024-06-15 is a weekend day.
C5_TemporalFeatures ==
    ret # NoValue =>
        /\ ret.month = arg.date.month
        /\ ret.day = arg.date.day
        /\ ret.day_of_week \in 0..6
        /\ ret.day_of_week = MondayZero(arg.date)
        /\ ret.is_rush_hour = Flag(RushHour(arg.hour))
        /\ ret.is_weekend = Flag(ret.day_of_week >= 5)
        /\ ret.is_night_time = Flag(NightTime(arg.hour))
        /\ arg.hour = 8 => (ret.is_rush_hour = 1 /\ ret.is_night_time = 0)
        /\ arg.hour = 23 => ret.is_night_time = 1
        /\ arg.date = [year |-> 2024, month |-> 6, day |-> 15]
               => (ret.day_of_week = 5 /\ ret.is_weekend = 1)

C5_Witness ==
    /\ ret # NoValue
    /\ arg = [date |-> [year |-> 2024, month |-> 6, day |-> 15], hour |-> 8]
    /\ ret.is_rush_hour = 1
    /\ ret.is_weekend = 1
    /\ ret.is_night_time = 0

HighRisk(f) == f \in {"driver inattention/distraction", "unsafe speed"}

\* C6: after a successful prediction the risk-factor list holds the rush-hour
\* note iff is_rush_hour, the night-time note iff is_night_time and the high-risk
\* note iff the factor is one of the two, in that order and nothing else; the
\* "no risk factors" message is rendered exactly when the list is empty.
C6_RiskFactorList ==
    /\ predictor = "returned" =>
           /\ InPage(MsgRiskHeader)
           /\ risk_factors =
                  (IF temporal.is_rush_hour = 1 THEN <<NoteRush>> ELSE <<>>)
                  \o (IF temporal.is_night_time = 1 THEN <<NoteNight>> ELSE <<>>)
                  \o (IF HighRisk(contributing_factor)
                      THEN <<NoteHigh(contributing_factor)>> ELSE <<>>)
           /\ temporal.is_rush_hour = Flag(RushHour(hour))
           /\ temporal.is_night_time = Flag(NightTime(hour))
           /\ (risk_factors = <<>>) <=>
                  (~RushHour(hour) /\ ~NightTime(hour) /\ ~HighRisk(contributing_factor))
           /\ InPage(MsgNoRisk) <=> (risk_factors = <<>>)
           /\ InPage(MsgRiskList) <=> (risk_factors # <<>>)
    /\ predictor # "returned" => (~InPage(MsgNoRisk) /\ ~InPage(MsgRiskList))

C6_Witness ==
    /\ predictor = "returned"
    /\ hour = 19
    /\ contributing_factor = "unsafe speed"
    /\ risk_factors = <<NoteRush, NoteHigh("unsafe speed")>>
    /\ InPage(MsgRiskList)

Raised == predictor \in {"predict raised", "predict_proba raised"}

\* C7: when predict or predict_proba raises, the attempt reports the failure,
\* renders no result and no risk factors, calls each of predict and
\* predict_proba at most once, and leaves the form usable for a later attempt.
C7_FailedAttempt ==
    /\ predict_calls <= 1
    /\ proba_calls <= 1
    /\ Raised =>
           /\ InPage(MsgPredError)
           /\ ~InPage(MsgResults)
           /\ ~InPage(MsgLikely) /\ ~InPage(MsgUnlikely) /\ ~InPage(MsgProbability)
           /\ ~InPage(MsgRiskHeader) /\ ~InPage(MsgRiskList) /\ ~InPage(MsgNoRisk)
           /\ prediction = Unbound
           /\ risk_factors = <<>>
           /\ predict_calls = 1
           /\ proba_calls = (IF predictor = "predict raised" THEN 0 ELSE 1)
           /\ halted = "end"
           /\ WidgetsShown
    /\ InPage(MsgPredError) => Raised

\* A later attempt succeeded after an earlier one failed.
C7_Witness ==
    /\ had_failure
    /\ predictor = "returned"
    /\ InPage(MsgResults)
    /\ ~InPage(MsgPredError)

LoadFailed == halted = "load"

C9_RequestFromCurrentInputs ==
    input_data # NoValue =>
        input_data =
            [Month       |-> date_time.month,
             Day         |-> date_time.day,
             Hour        |-> hour,
             DayOfWeek   |-> MondayZero(date_time),
             VehicleType |-> vehicle_type,
             ZipCode     |-> IntegerValue(zip_code),
             Factor      |-> contributing_factor,
             IsRushHour  |-> Flag(RushHour(hour)),
             IsWeekend   |-> Flag(MondayZero(date_time) >= 5),
             IsNightTime |-> Flag(NightTime(hour))]

\* A second request, after an earlier attempt and edits of three inputs.
C9_Witness ==
    /\ had_failure
    /\ predictor = "returned"
    /\ input_data # NoValue
    /\ hour = 22
    /\ zip_code = Z("1", "3", "5", "0", "0")
    /\ contributing_factor = "unsafe speed"
    /\ input_data.IsNightTime = 1
    /\ input_data.ZipCode = 13500

\* C10: is_valid_ny_zipcode accepts a string exactly when get_region gives it a
\* region other than "Unknown" and "Invalid".
C10_GateAgreesWithClassifier ==
    ret # NoValue => (ret.is_valid <=> ret.region \notin {"Unknown", "Invalid"})

C10_Witness ==
    /\ ret # NoValue
    /\ arg = Z("1", "2", "0", "0", "6")
    /\ ret.is_valid
    /\ ret.region = "New York City Area"

=============================================================================
